---- MODULE Spec2Model ----
(***************************************************************************)
(* The HistData archive downloader of elpis_nautilus                       *)
(* (src/src/elpis_nautilus/data_downloaders/downloader_main.py):           *)
(* _year_month_range, _session, _extract_filename, _fetch_zip,             *)
(* _extract_zip and download_histdata.                                     *)
(*                                                                         *)
(* Text (header values, anchor text, file names) is a sequence of          *)
(* one-character strings, so that lower(), strip(), endswith(), "in" and   *)
(* the filename= regular expression are computed as Python computes them.  *)
(* A file's content is a sequence of blocks; the blocks of an archive are  *)
(* its members followed by its end-of-central-directory record.            *)
(***************************************************************************)
EXTENDS Integers, Sequences, FiniteSets, TLC

VARIABLES
    args,       \* the arguments of the run: [symbol, start, end]
    gen,        \* the _year_month_range generator object
    yielded,    \* the (year, month) pairs the generator has yielded so far
    pc,         \* position of the running code
    call,       \* locals of the _fetch_zip call in progress
    ex,         \* locals of the _extract_zip call in progress
    fs,         \* the files directly in dest: file name -> content
    session,    \* the module global _SESSION
    net,        \* the requests sent by the _fetch_zip call in progress
    log,        \* the log records emitted so far
    hist,       \* what download_histdata has called so far (observation only)
    cli         \* the 'download histdata' command in progress, if one is

vars == <<args, gen, yielded, pc, call, ex, fs, session, net, log, hist, cli>>

----------------------------------------------------------------------------
(* Bounds of the model.                                                    *)

\* first calendar year the inputs are drawn from
FirstYear == 2021
\* number of consecutive years, from FirstYear, the inputs are drawn from
YearSpan == 2
\* longest range, in months from start's month to end's month, that
\* _year_month_range is run over
MaxSpan == 13
\* longest range, in months, that download_histdata is run over
MaxRunSpan == 1

\* datetime.MAXYEAR: datetime(year, ...) raises ValueError above it
MAXYEAR == 9999

----------------------------------------------------------------------------
(* Text.                                                                   *)

Uppers == <<"A","B","C","D","E","F","G","H","I","J","K","L","M",
            "N","O","P","Q","R","S","T","U","V","W","X","Y","Z">>
Lowers == <<"a","b","c","d","e","f","g","h","i","j","k","l","m",
            "n","o","p","q","r","s","t","u","v","w","x","y","z">>

LowerChar(c) ==
    IF \E i \in 1..Len(Uppers) : Uppers[i] = c
    THEN Lowers[CHOOSE i \in 1..Len(Uppers) : Uppers[i] = c]
    ELSE c

\* str.lower()
Lower(s) == [i \in 1..Len(s) |-> LowerChar(s[i])]

Whitespace == {" "}

\* str.strip(chars): drop the leading and trailing characters that are in chars
StripChars(s, chars) ==
    LET keep == {i \in 1..Len(s) : s[i] \notin chars}
    IN  IF keep = {} THEN << >>
        ELSE LET lo == CHOOSE i \in keep : \A j \in keep : i <= j
                 hi == CHOOSE i \in keep : \A j \in keep : i >= j
             IN  SubSeq(s, lo, hi)

\* str.strip()
Strip(s) == StripChars(s, Whitespace)

\* s[i:i+len(sub)] == sub
MatchesAt(s, sub, i) ==
    /\ i >= 1
    /\ i + Len(sub) - 1 <= Len(s)
    /\ SubSeq(s, i, i + Len(sub) - 1) = sub

\* sub in s
Contains(s, sub) == \E i \in 1..(Len(s) + 1) : MatchesAt(s, sub, i)

\* s.endswith(suffix)
EndsWith(s, suffix) ==
    /\ Len(suffix) <= Len(s)
    /\ MatchesAt(s, suffix, Len(s) - Len(suffix) + 1)

----------------------------------------------------------------------------
(* Dates and _year_month_range.                                            *)

Years == (FirstYear..(FirstYear + YearSpan - 1)) \cup {MAXYEAR}
Months == 1..12
Days == {1, 28}

\* the datetime values handed to _year_month_range
Datetimes == [year : Years, month : Months, day : Days]

\* year*12 + month, the month count the range length is stated in
MonthIndex(d) == d.year * 12 + d.month

\* datetime(year, month, 1) <= datetime(year', month', 1)
DatetimeLE(a, b) ==
    \/ a.year < b.year
    \/ a.year = b.year /\ a.month <= b.month

\* the loop test of _year_month_range, with the bound excluded
WhileCondExclusive(cur, end_marker) ==
    DatetimeLE(cur, end_marker) /\ cur # end_marker

\* line 93: while cur <= end_marker
WhileCond(cur, end_marker) == DatetimeLE(cur, end_marker)

\* line 95: the arguments of datetime(cur.year + cur.month // 12, cur.month % 12 + 1, 1)
NextMonth(cur) ==
    [year |-> cur.year + (cur.month \div 12), month |-> (cur.month % 12) + 1]

\* datetime(...) accepts the year
YearInRange(d) == d.year <= MAXYEAR

NoGen == [st |-> "none"]

\* calling _year_month_range(start, end) creates the generator; no line of the
\* body has run yet
NewGen(s, e) == [st |-> "created", start |-> s, end |-> e]

\* next(gen): run the body up to the next yield, the return or an exception.
\* Gives the generator afterwards and what the caller sees:
\*   [kind |-> "yield", value |-> <<year, month>>], "stop" (StopIteration)
\*   or "raise" (ValueError from datetime()).
GenTest(cur, end_marker) ==
    IF WhileCond(cur, end_marker)
    THEN [g   |-> [st |-> "suspended", cur |-> cur, end_marker |-> end_marker],
          out |-> [kind |-> "yield", value |-> <<cur.year, cur.month>>]]
    ELSE [g   |-> [st |-> "finished"],
          out |-> [kind |-> "stop"]]

\* next(gen) with the first test made on start and end as given, days included
GenResumeUntruncated(g) ==
    IF g.st = "created"
    THEN IF /\ MonthIndex(g.start) = MonthIndex(g.end)
            /\ g.end.day < g.start.day
         THEN [g |-> [st |-> "finished"], out |-> [kind |-> "stop"]]
         ELSE GenTest([year |-> g.start.year, month |-> g.start.month],
                      [year |-> g.end.year, month |-> g.end.month])
    ELSE IF g.st = "suspended"
    THEN LET nxt == NextMonth(g.cur)
         IN  IF YearInRange(nxt)
             THEN GenTest(nxt, g.end_marker)
             ELSE [g |-> [st |-> "finished"], out |-> [kind |-> "raise"]]
    ELSE [g |-> g, out |-> [kind |-> "stop"]]

GenResume(g) ==
    IF g.st = "created"
    THEN GenTest([year |-> g.start.year, month |-> g.start.month],
                 [year |-> g.end.year, month |-> g.end.month])
    ELSE IF g.st = "suspended"
    THEN LET nxt == NextMonth(g.cur)
         IN  IF YearInRange(nxt)
             THEN GenTest(nxt, g.end_marker)
             ELSE [g |-> [st |-> "finished"], out |-> [kind |-> "raise"]]
    ELSE [g |-> g, out |-> [kind |-> "stop"]]

----------------------------------------------------------------------------
(* State outside a run.                                                    *)

\* an empty directory: no file name is mapped
NoFiles == << >>

\* no command is running: the functions are called directly
NoCli == [on |-> FALSE]

NoCall == [fn |-> "none"]
NoEx == [fn |-> "none"]
\* _SESSION is None; made counts the requests.Session() constructions
NoSession == [created |-> FALSE, id |-> 0, headers |-> << >>, made |-> 0]
NoHist == [fetches |-> << >>, results |-> << >>, extracts |-> << >>, sessions |-> << >>,
           written |-> {}]

SymEURUSD == <<"E","u","r","U","s","d">>

----------------------------------------------------------------------------
(* Text the downloader tests for, and the text the inputs are made of.     *)

TxtZip == <<"z","i","p">>
TxtDotZip == <<".","z","i","p">>
TxtHtml == <<"h","t","m","l">>
TxtDotTxt == <<".","t","x","t">>
TxtFilenameEq == <<"f","i","l","e","n","a","m","e","=">>
TxtGetPhp == <<"g","e","t",".","p","h","p">>
TxtFile == <<"f","i","l","e">>

NameFZip == <<"f",".","z","i","p">>
NameToken == <<"t","k">>
AnchorPadded == <<" ","H",".","Z","i","p"," ">>
AnchorNotZip == <<"h",".","t","x","t">>
DispQuoted == <<"a","t","t","a","c","h","m","e","n","t",";"," ",
                "f","i","l","e","n","a","m","e","=","\"","f",".","z","i","p","\"">>
DispPlain == <<"a","t","t","a","c","h","m","e","n","t",";"," ",
               "f","i","l","e","n","a","m","e","=","g",".","Z","I","P",";"," ",
               "c","h","a","r","s","e","t","=","u","t","f","-","8">>
DispNoFilename == <<"a","t","t","a","c","h","m","e","n","t",";"," ","z","i","p">>
DispNotZip == <<"a","t","t","a","c","h","m","e","n","t",";"," ",
                "f","i","l","e","n","a","m","e","=","\"","f",".","t","x","t","\"">>
DispTraversal == <<"a","t","t","a","c","h","m","e","n","t",";"," ",
                   "f","i","l","e","n","a","m","e","=","\"",".",".","/","e",".","z","i","p","\"">>
CtypeZip == <<"a","p","p","l","i","c","a","t","i","o","n","/","z","i","p">>
CtypeHtml == <<"T","e","x","t","/","H","T","M","L",";"," ",
               "c","h","a","r","s","e","t","=","u","t","f","-","8">>
MemberCsv == <<"a",".","c","s","v">>
MemberTxt == <<"a",".","t","x","t">>
MemberBad == <<"b",".","c","s","v">>
OldTxt == <<"o","l","d",".","t","x","t">>
OldCsv == <<"o","l","d",".","c","s","v">>
SubTxt == <<"s","/","n",".","t","x","t">>

----------------------------------------------------------------------------
(* Files of the destination directory.                                     *)

\* the directory with file name holding content (created or truncated)
Put(dir, name, content) ==
    [n \in (DOMAIN dir) \cup {name} |-> IF n = name THEN content ELSE dir[n]]

\* the directory without the files named in names
Remove(dir, names) == [n \in (DOMAIN dir) \ names |-> dir[n]]

\* Path.unlink(missing_ok=True)
Unlink(dir, name) == Remove(dir, {name})

\* a handler that clears the text files as the success path does
HandlerUnlinkAndTxt(dir, zip_path) ==
    Remove(dir, {zip_path} \cup {n \in DOMAIN dir : EndsWith(n, TxtDotTxt)})

\* line 213: the BadZipFile handler removes the archive
HandlerUnlink(dir, zip_path) == Unlink(dir, zip_path)

\* a finally clause that removes nothing
FinallyKeeps(dir, zip_path) == dir

\* lines 215-217: the finally clause removes the archive
FinallyUnlink(dir, zip_path) == Unlink(dir, zip_path)

\* a glob that matches nothing
GlobNothing(dir) == {}

\* the path names a file directly in dest (a file is named by its path
\* from dest: s/n.txt is in the subdirectory s, ../e.zip in dest's parent)
DirectChild(n) == \A i \in 1..Len(n) : n[i] # "/"

\* a glob that descends into the subdirectories
GlobTxtDeep(dir) == {n \in DOMAIN dir : EndsWith(n, TxtDotTxt)}

\* dest.glob("*.txt")
GlobTxt(dir) == {n \in DOMAIN dir : DirectChild(n) /\ EndsWith(n, TxtDotTxt)}

\* what the destination directory holds when the run starts
InitialDirs ==
    {NoFiles, [n \in {OldTxt, OldCsv, SubTxt} |-> <<"D">>]}

----------------------------------------------------------------------------
(* Listing pages, as BeautifulSoup parses them.                            *)

NoForm == [present |-> FALSE, hasAction |-> FALSE, action |-> << >>, inputs |-> << >>]
NoAnchor == [present |-> FALSE, text |-> << >>]

\* <form id="file_down" action="get.php"><input name="file" value="f.zip"/>
\* <input name="tk"/><input value="x"/></form>
FormFull ==
    [present |-> TRUE, hasAction |-> TRUE, action |-> TxtGetPhp,
     inputs |-> << [hasName |-> TRUE, name |-> TxtFile, hasValue |-> TRUE, value |-> NameFZip],
                   [hasName |-> TRUE, name |-> NameToken, hasValue |-> FALSE, value |-> << >>],
                   [hasName |-> FALSE, name |-> << >>, hasValue |-> TRUE, value |-> <<"x">>] >>]

\* <form id="file_down"></form>
FormBare == [present |-> TRUE, hasAction |-> FALSE, action |-> << >>, inputs |-> << >>]

Pages ==
    { [form |-> NoForm,   anchor |-> NoAnchor],
      [form |-> FormFull, anchor |-> [present |-> TRUE, text |-> AnchorPadded]],
      [form |-> FormBare, anchor |-> NoAnchor],
      [form |-> NoForm,   anchor |-> [present |-> TRUE, text |-> AnchorPadded]],
      [form |-> NoForm,   anchor |-> [present |-> TRUE, text |-> AnchorNotZip]] }

\* lines 146-149: {inp["name"]: inp.get("value", "") for the inputs that have a name}
FormPayload(form) ==
    LET named == {i \in 1..Len(form.inputs) : form.inputs[i].hasName}
        names == {form.inputs[i].name : i \in named}
    IN  [n \in names |->
            LET last == CHOOSE i \in named :
                            /\ form.inputs[i].name = n
                            /\ \A j \in named : form.inputs[j].name = n => j <= i
            IN  IF form.inputs[last].hasValue THEN form.inputs[last].value ELSE << >>]

\* the anchor test without the extension test of line 160
AnchorUsableAnyText(anchor) == anchor.present

\* line 160 negated: the page has an a_file anchor whose text names a .zip
AnchorUsable(anchor) ==
    anchor.present /\ EndsWith(Lower(Strip(anchor.text)), TxtDotZip)

\* line 113-120: the listing-page address of a period
HistdataPage(symbol, year, month) ==
    [symbol |-> Lower(symbol), year |-> year, month |-> month]

\* urljoin(page_url, ref)
UrlJoin(page_url, ref) == [base |-> page_url, ref |-> ref]

----------------------------------------------------------------------------
(* POST responses.                                                         *)

\* a response's headers: header name -> value
Headers(ctypes, disps) ==
    [n \in {"Content-Type" : x \in ctypes} \cup {"Content-Disposition" : x \in disps} |->
        IF n = "Content-Type" THEN CHOOSE x \in ctypes : TRUE
        ELSE CHOOSE x \in disps : TRUE]

\* resp.headers.get(name, "")
HeaderGet(headers, name) ==
    IF name \in DOMAIN headers THEN headers[name] ELSE << >>

\* the header sets of the successful POST responses
ResponseHeaders ==
    {Headers(c, d) : c \in {{}, {CtypeZip}, {CtypeHtml}},
                     d \in {{}, {DispQuoted}, {DispPlain}, {DispNoFilename}, {DispNotZip},
                           {DispTraversal}}}

\* a search whose group runs to the end of the string, semicolons included
ExtractFilenameToEnd(cd) ==
    LET k == Len(TxtFilenameEq)
        hits == {i \in 1..Len(cd) :
                    MatchesAt(cd, TxtFilenameEq, i) /\ i + k <= Len(cd)}
    IN  IF hits = {} THEN [found |-> FALSE, val |-> << >>]
        ELSE LET i == CHOOSE h \in hits : \A g \in hits : h <= g
             IN  [found |-> TRUE,
                  val |-> StripChars(Strip(SubSeq(cd, i + k, Len(cd))), {"\""})]

\* lines 123-127: re.search(r"filename=([^;]+)", cd), then strip() and strip('"')
ExtractFilename(cd) ==
    LET k == Len(TxtFilenameEq)
        hits == {i \in 1..Len(cd) :
                    /\ MatchesAt(cd, TxtFilenameEq, i)
                    /\ i + k <= Len(cd)
                    /\ cd[i + k] # ";"}
    IN  IF hits = {} THEN [found |-> FALSE, val |-> << >>]
        ELSE LET i == CHOOSE h \in hits : \A g \in hits : h <= g
                 p == i + k
                 q == CHOOSE j \in p..Len(cd) :
                        /\ \A m \in p..j : cd[m] # ";"
                        /\ (j = Len(cd) \/ cd[j + 1] = ";")
             IN  [found |-> TRUE,
                  val |-> StripChars(Strip(SubSeq(cd, p, q)), {"\""})]

\* the tests of line 185 without the lower() of lines 181 and 185
RejectedCaseSensitive(headers) ==
    \/ Contains(HeaderGet(headers, "Content-Type"), TxtHtml)
    \/ ~Contains(HeaderGet(headers, "Content-Disposition"), TxtZip)

\* line 185: "html" in ctype or "zip" not in disp.lower()
Rejected(headers) ==
    \/ Contains(Lower(HeaderGet(headers, "Content-Type")), TxtHtml)
    \/ ~Contains(Lower(HeaderGet(headers, "Content-Disposition")), TxtZip)

\* The response body as iter_content delivers it: the chunks, and whether the
\* stream then breaks (iter_content raises) instead of ending.  A chunk is a
\* sequence of blocks: "C" a data member, "T" a text member, "X" a member whose
\* CRC does not match, "O" a member zipfile cannot open (NotImplementedError,
\* RuntimeError), "E" the end-of-central-directory record.
Bodies ==
    { [chunks |-> << <<"C","T">>, << >>, <<"E">> >>, breaks |-> FALSE],
      [chunks |-> << <<"C">>, <<"X","E">> >>,        breaks |-> FALSE],
      [chunks |-> << <<"C">> >>,                     breaks |-> FALSE],
      [chunks |-> << <<"C","O","E">> >>,             breaks |-> FALSE],
      [chunks |-> << <<"C">> >>,                     breaks |-> TRUE],
      [chunks |-> << >>,                             breaks |-> TRUE] }

RECURSIVE WrittenUntilEmpty(_)
\* a loop that takes an empty chunk for the end of the body
WrittenUntilEmpty(chunks) ==
    IF chunks = << >> \/ Head(chunks) = << >> THEN << >>
    ELSE Head(chunks) \o WrittenUntilEmpty(Tail(chunks))

RECURSIVE Written(_)
\* lines 196-198: what the loop over the chunks writes
Written(chunks) ==
    IF chunks = << >> THEN << >>
    ELSE IF Head(chunks) # << >>
         THEN Head(chunks) \o Written(Tail(chunks))
         ELSE Written(Tail(chunks))

----------------------------------------------------------------------------
(* Archives, as zipfile reads them.                                        *)

\* zipfile.ZipFile(zip_path) finds the end-of-central-directory record
IsZip(content) == content # << >> /\ content[Len(content)] = "E"

\* zf.namelist(): the members, in archive order
Members(content) == SelectSeq(content, LAMBDA b : b # "E")

\* the file a member is extracted to
MemberFile(b) ==
    IF b = "C" THEN MemberCsv ELSE IF b = "T" THEN MemberTxt ELSE MemberBad

----------------------------------------------------------------------------
(* list(_year_month_range(start, end)): the generator driven to its end.   *)

\* the (start, end) pairs the generator is run over
RangeInputs ==
    {a \in [symbol : {SymEURUSD}, start : Datetimes, end : Datetimes] :
        MonthIndex(a.end) - MonthIndex(a.start) <= MaxSpan}

InitRange ==
    /\ args \in RangeInputs
    /\ gen = NewGen(args.start, args.end)
    /\ yielded = << >>
    /\ pc = "iterating"
    /\ call = NoCall
    /\ ex = NoEx
    /\ fs = NoFiles
    /\ session = NoSession
    /\ net = << >>
    /\ log = << >>
    /\ hist = NoHist
    /\ cli = NoCli

RangeYield ==
    /\ pc = "iterating"
    /\ GenResume(gen).out.kind = "yield"
    /\ gen' = GenResume(gen).g
    /\ yielded' = Append(yielded, GenResume(gen).out.value)
    /\ UNCHANGED <<args, pc, call, ex, fs, session, net, log, hist, cli>>

RangeStop ==
    /\ pc = "iterating"
    /\ GenResume(gen).out.kind = "stop"
    /\ gen' = GenResume(gen).g
    /\ pc' = "range_done"
    /\ UNCHANGED <<args, yielded, call, ex, fs, session, net, log, hist, cli>>

RangeRaise ==
    /\ pc = "iterating"
    /\ GenResume(gen).out.kind = "raise"
    /\ gen' = GenResume(gen).g
    /\ pc' = "range_raised"
    /\ UNCHANGED <<args, yielded, call, ex, fs, session, net, log, hist, cli>>

NextRange == RangeYield \/ RangeStop \/ RangeRaise

SpecRange == InitRange /\ [][NextRange]_vars

----------------------------------------------------------------------------
(* download_histdata(symbol, start, end, dest).                            *)

\* the months the runs start in: a December, and the November of MAXYEAR
RunStarts ==
    { [year |-> FirstYear, month |-> 12, day |-> 28],
      [year |-> MAXYEAR,   month |-> 11, day |-> 1] }

\* the datetime on the first day of the i-th month after d's month
FirstOfMonthAfter(d, i) ==
    LET idx == d.year * 12 + (d.month - 1) + i
    IN  [year |-> idx \div 12, month |-> (idx % 12) + 1, day |-> 1]

RunInputs ==
    {a \in [symbol : {SymEURUSD}, start : RunStarts,
            end : {FirstOfMonthAfter(s, i) : s \in RunStarts, i \in (0 - 1)..MaxRunSpan}] :
        /\ a.end.year <= MAXYEAR
        /\ MonthIndex(a.end) - MonthIndex(a.start) \in (0 - 1)..MaxRunSpan}

Init ==
    /\ args \in RunInputs
    /\ gen = NoGen
    /\ yielded = << >>
    /\ pc = "begin"
    /\ call = NoCall
    /\ ex = NoEx
    /\ fs \in InitialDirs
    /\ session = NoSession
    /\ net = << >>
    /\ log = << >>
    /\ hist = NoHist
    /\ cli = NoCli

\* logger.<level>(msg, ...) about a period (<< >> when about the whole run)
Logged(level, msg, period) ==
    Append(log, [level |-> level, msg |-> msg, period |-> period])

\* lines 58-63
HEADERS ==
    ("User-Agent" :> "Mozilla/5.0 (X11; Linux x86_64) Chrome/136.0.0.0")
        @@ ("Accept" :> "text/html,application/xhtml+xml,application/xml;q=0.9,*/*;q=0.8")

\* the headers of a new requests.Session()
DefaultHeaders ==
    ("User-Agent" :> "python-requests") @@ ("Accept-Encoding" :> "gzip, deflate")
        @@ ("Accept" :> "*/*") @@ ("Connection" :> "keep-alive")

\* d.update(u)
DictUpdate(d, u) ==
    [k \in DOMAIN d \cup DOMAIN u |-> IF k \in DOMAIN u THEN u[k] ELSE d[k]]

\* a _session() that builds a new session on every call
SessionAlwaysNew ==
    [created |-> TRUE, id |-> session.made + 1,
     headers |-> DictUpdate(DefaultHeaders, HEADERS), made |-> session.made + 1]

\* lines 105-110: _session(); the session it returns is the id field
SessionAfterCall ==
    IF session.created THEN session
    ELSE [created |-> TRUE, id |-> session.made + 1,
          headers |-> DictUpdate(DefaultHeaders, HEADERS), made |-> session.made + 1]

\* a post() that stores its headers argument in the session
SessionAfterPostKeepsReferer ==
    [session EXCEPT !.headers = DictUpdate(@, "Referer" :> "page_url")]

\* lines 173-174: session.post(..., headers={"Referer": page_url}); the
\* headers argument is merged into the request that is sent, and the
\* session's own headers stay as they are
SessionAfterPost == session

\* lines 233-240: the start message, then the for statement creates the generator
Begin ==
    /\ pc = "begin"
    /\ log' = Logged("info", "Downloading", << >>)
    /\ gen' = NewGen(args.start, args.end)
    /\ pc' = "loop"
    /\ UNCHANGED <<args, yielded, call, ex, fs, session, net, hist, cli>>

\* the locals of _fetch_zip after lines 132-133
NewFetch(period) ==
    [fn |-> "_fetch_zip",
     sess |-> SessionAfterCall.id,
     period |-> period,
     page_url |-> HistdataPage(args.symbol, period[1], period[2]),
     before |-> fs,
     logged |-> Len(log),
     get |-> "pending",
     page |-> [form |-> NoForm, anchor |-> NoAnchor],
     via |-> "none",
     form_action |-> << >>,
     payload |-> << >>,
     zip_name |-> [bound |-> FALSE, val |-> << >>],
     post |-> "pending",
     headers |-> << >>,
     fname |-> << >>,
     body |-> << >>,
     broke |-> FALSE,
     ret |-> [kind |-> "running", path |-> << >>, exc |-> ""]]

\* line 240 yields the next period; line 241 calls _fetch_zip, whose lines
\* 132-133 take the session and build the page address
LoopYield ==
    /\ pc = "loop"
    /\ GenResume(gen).out.kind = "yield"
    /\ gen' = GenResume(gen).g
    /\ yielded' = Append(yielded, GenResume(gen).out.value)
    /\ session' = SessionAfterCall
    /\ call' = NewFetch(GenResume(gen).out.value)
    /\ net' = << >>
    /\ hist' = [hist EXCEPT !.fetches = Append(@, GenResume(gen).out.value),
                            !.sessions = Append(@, SessionAfterCall.id)]
    /\ pc' = "get"
    /\ UNCHANGED <<args, ex, fs, log, cli>>

\* line 240 ends the loop; line 244 logs the completion message
LoopStop ==
    /\ pc = "loop"
    /\ GenResume(gen).out.kind = "stop"
    /\ gen' = GenResume(gen).g
    /\ log' = Logged("info", "Completed", << >>)
    /\ pc' = "done"
    /\ UNCHANGED <<args, yielded, call, ex, fs, session, net, hist, cli>>

\* line 240: the generator raises ValueError (line 95), which nothing catches
LoopRaise ==
    /\ pc = "loop"
    /\ GenResume(gen).out.kind = "raise"
    /\ gen' = GenResume(gen).g
    /\ pc' = "aborted"
    /\ UNCHANGED <<args, yielded, call, ex, fs, session, net, log, hist, cli>>

Get(url) == [op |-> "GET", url |-> url, data |-> << >>, referer |-> << >>]
\* a POST sent without the Referer header
PostNoReferer(url, data, referer) == [op |-> "POST", url |-> url, data |-> data, referer |-> << >>]

\* lines 150-155 and 165-169, sent on line 174: the POST with its form data
\* and its Referer header
Post(url, data, referer) == [op |-> "POST", url |-> url, data |-> data, referer |-> <<referer>>]

ReturnNone == [kind |-> "none", path |-> << >>, exc |-> ""]
ReturnPath(path) == [kind |-> "path", path |-> path, exc |-> ""]
Raise(exc) == [kind |-> "raise", path |-> << >>, exc |-> exc]

\* the failed GET, sent a second time before giving up
FetchGetFailRetries ==
    /\ pc = "get"
    /\ \E why \in {"transport", "status"} :
         call' = [call EXCEPT !.get = why, !.ret = ReturnNone]
    /\ net' = net \o <<Get(call.page_url), Get(call.page_url)>>
    /\ log' = Logged("error", "Listing page failed", call.period)
    /\ pc' = "fetch_returned"
    /\ UNCHANGED <<args, gen, yielded, ex, fs, session, hist, cli>>

\* lines 134-139: the GET raises, or raise_for_status() does
FetchGetFail ==
    /\ pc = "get"
    /\ \E why \in {"transport", "status"} :
         call' = [call EXCEPT !.get = why, !.ret = ReturnNone]
    /\ net' = Append(net, Get(call.page_url))
    /\ log' = Logged("error", "Listing page failed", call.period)
    /\ pc' = "fetch_returned"
    /\ UNCHANGED <<args, gen, yielded, ex, fs, session, hist, cli>>

\* lines 134-141: the GET succeeds and the page is parsed
FetchGetOk ==
    /\ pc = "get"
    /\ \E page \in Pages : call' = [call EXCEPT !.get = "ok", !.page = page]
    /\ net' = Append(net, Get(call.page_url))
    /\ pc' = "resolve"
    /\ UNCHANGED <<args, gen, yielded, ex, fs, session, log, hist, cli>>

\* lines 144-156: the page has the file_down form
FetchResolveForm ==
    /\ pc = "resolve"
    /\ call.page.form.present
    /\ call' = [call EXCEPT
                  !.via = "form",
                  !.payload = FormPayload(call.page.form),
                  !.form_action =
                      UrlJoin(call.page_url,
                              IF call.page.form.hasAction
                              THEN call.page.form.action ELSE TxtGetPhp)]
    /\ pc' = "post"
    /\ UNCHANGED <<args, gen, yielded, ex, fs, session, net, log, hist, cli>>

\* lines 158-170: no form, and the a_file anchor names a .zip
FetchResolveAnchor ==
    /\ pc = "resolve"
    /\ ~call.page.form.present
    /\ AnchorUsable(call.page.anchor)
    /\ call' = [call EXCEPT
                  !.via = "anchor",
                  !.zip_name = [bound |-> TRUE, val |-> Strip(call.page.anchor.text)],
                  !.payload = [n \in {TxtFile} |-> Strip(call.page.anchor.text)],
                  !.form_action = UrlJoin(call.page_url, TxtGetPhp)]
    /\ pc' = "post"
    /\ UNCHANGED <<args, gen, yielded, ex, fs, session, net, log, hist, cli>>

\* lines 158-162: neither form nor usable anchor
FetchResolveNone ==
    /\ pc = "resolve"
    /\ ~call.page.form.present
    /\ ~AnchorUsable(call.page.anchor)
    /\ call' = [call EXCEPT !.ret = ReturnNone]
    /\ log' = Logged("error", "No download form or ZIP link found", call.period)
    /\ pc' = "fetch_returned"
    /\ UNCHANGED <<args, gen, yielded, ex, fs, session, net, hist, cli>>

\* lines 173-179: the POST raises, or raise_for_status() does
FetchPostFail ==
    /\ pc = "post"
    /\ net' = Append(net, Post(call.form_action, call.payload, call.page_url))
    /\ session' = SessionAfterPost
    /\ \E why \in {"transport", "status"} :
         call' = [call EXCEPT !.post = why, !.ret = ReturnNone]
    /\ log' = Logged("error", "Download failed", call.period)
    /\ pc' = "fetch_returned"
    /\ UNCHANGED <<args, gen, yielded, ex, fs, hist, cli>>

\* lines 173-182: the POST succeeds; its headers are read
FetchPostOk ==
    /\ pc = "post"
    /\ net' = Append(net, Post(call.form_action, call.payload, call.page_url))
    /\ session' = SessionAfterPost
    /\ \E h \in ResponseHeaders : call' = [call EXCEPT !.post = "ok", !.headers = h]
    /\ pc' = "check"
    /\ UNCHANGED <<args, gen, yielded, ex, fs, log, hist, cli>>

\* lines 185-190: markup, or no zip in the disposition
FetchReject ==
    /\ pc = "check"
    /\ Rejected(call.headers)
    /\ call' = [call EXCEPT !.ret = ReturnNone]
    /\ log' = Logged("error", "Unexpected response", call.period)
    /\ pc' = "fetch_returned"
    /\ UNCHANGED <<args, gen, yielded, ex, fs, session, net, hist, cli>>

\* line 193, left operand: _extract_filename(disp) is truthy
ParsedName(headers) ==
    LET f == ExtractFilename(HeaderGet(headers, "Content-Disposition"))
    IN  [truthy |-> f.found /\ f.val # << >>, val |-> f.val]

\* line 193: fname = _extract_filename(disp) or zip_name, the name being bound
FetchName ==
    /\ pc = "check"
    /\ ~Rejected(call.headers)
    /\ ParsedName(call.headers).truthy \/ call.zip_name.bound
    /\ call' = [call EXCEPT !.fname = IF ParsedName(call.headers).truthy
                                      THEN ParsedName(call.headers).val
                                      ELSE call.zip_name.val]
    /\ pc' = "open"
    /\ UNCHANGED <<args, gen, yielded, ex, fs, session, net, log, hist, cli>>

\* line 193: zip_name is read but was never assigned (the form branch does not
\* assign it): UnboundLocalError
FetchNameError ==
    /\ pc = "check"
    /\ ~Rejected(call.headers)
    /\ ~ParsedName(call.headers).truthy
    /\ ~call.zip_name.bound
    /\ call' = [call EXCEPT !.ret = Raise("UnboundLocalError")]
    /\ pc' = "fetch_returned"
    /\ UNCHANGED <<args, gen, yielded, ex, fs, session, net, log, hist, cli>>

\* line 194: zip_path = dest / fname, as a path from dest; nothing of fname
\* is dropped or rewritten, so ../ components and a leading / stay in it
ZipPath(fname) == fname

\* line 195: zip_path.open("wb") creates the file, or truncates it
FetchOpen ==
    /\ pc = "open"
    /\ fs' = Put(fs, ZipPath(call.fname), << >>)
    /\ hist' = [hist EXCEPT !.written = @ \cup {ZipPath(call.fname)}]
    /\ pc' = "stream"
    /\ UNCHANGED <<args, gen, yielded, call, ex, session, net, log, cli>>

\* lines 196-203: the body is streamed to the file to its end
FetchSaved ==
    /\ pc = "stream"
    /\ \E body \in Bodies :
         /\ ~body.breaks
         /\ fs' = Put(fs, ZipPath(call.fname), Written(body.chunks))
         /\ call' = [call EXCEPT !.body = body.chunks,
                                 !.ret = ReturnPath(ZipPath(call.fname))]
    /\ log' = Logged("info", "Saved", call.period)
    /\ pc' = "fetch_returned"
    /\ UNCHANGED <<args, gen, yielded, ex, session, net, hist, cli>>

\* lines 195-198: iter_content raises while the body is streamed; the with
\* statement closes the file and the exception leaves _fetch_zip
FetchStreamBreaks ==
    /\ pc = "stream"
    /\ \E body \in Bodies :
         /\ body.breaks
         /\ fs' = Put(fs, ZipPath(call.fname), Written(body.chunks))
         /\ call' = [call EXCEPT !.body = body.chunks,
                                 !.broke = TRUE,
                                 !.ret = Raise("RequestException")]
    /\ pc' = "fetch_returned"
    /\ UNCHANGED <<args, gen, yielded, ex, session, net, log, hist, cli>>

\* the locals of _extract_zip on entry
NewExtract(zip_path) ==
    [fn |-> "_extract_zip",
     zip_path |-> zip_path,
     before |-> fs,
     members |-> << >>,
     listed |-> {},
     todo |-> {},
     kept |-> {},
     logged |-> Len(log),
     outcome |-> "running",
     ret |-> [kind |-> "running", path |-> << >>, exc |-> ""]]

\* a returned path that is not extracted
FetchedPathSkips ==
    /\ pc = "fetch_returned"
    /\ call.ret.kind = "path"
    /\ hist' = [hist EXCEPT !.results = Append(@, call.ret)]
    /\ call' = NoCall
    /\ net' = << >>
    /\ pc' = "loop"
    /\ UNCHANGED <<args, gen, yielded, ex, fs, session, log, cli>>

\* lines 241-243: _fetch_zip returned a path, so _extract_zip is called with it
FetchedPath ==
    /\ pc = "fetch_returned"
    /\ call.ret.kind = "path"
    /\ hist' = [hist EXCEPT !.results = Append(@, call.ret),
                            !.extracts = Append(@, call.ret.path)]
    /\ ex' = NewExtract(call.ret.path)
    /\ call' = NoCall
    /\ net' = << >>
    /\ pc' = "extract"
    /\ UNCHANGED <<args, gen, yielded, fs, session, log, cli>>

\* a period whose fetch returned None, fetched again
FetchedNoneRetries ==
    /\ pc = "fetch_returned"
    /\ call.ret.kind = "none"
    /\ hist' = [hist EXCEPT !.results = Append(@, call.ret),
                            !.fetches = Append(@, call.period)]
    /\ call' = NewFetch(call.period)
    /\ net' = << >>
    /\ pc' = "get"
    /\ UNCHANGED <<args, gen, yielded, ex, fs, session, log, cli>>

\* lines 241-242: _fetch_zip returned None; on to the next period
FetchedNone ==
    /\ pc = "fetch_returned"
    /\ call.ret.kind = "none"
    /\ hist' = [hist EXCEPT !.results = Append(@, call.ret)]
    /\ call' = NoCall
    /\ net' = << >>
    /\ pc' = "loop"
    /\ UNCHANGED <<args, gen, yielded, ex, fs, session, log, cli>>

\* line 241: _fetch_zip raised; download_histdata catches nothing
FetchedRaise ==
    /\ pc = "fetch_returned"
    /\ call.ret.kind = "raise"
    /\ hist' = [hist EXCEPT !.results = Append(@, call.ret)]
    /\ pc' = "aborted"
    /\ UNCHANGED <<args, gen, yielded, call, ex, fs, session, net, log, cli>>

\* lines 209, 211-217: ZipFile() finds no archive in the file (BadZipFile)
ExtractNotZip ==
    /\ pc = "extract"
    /\ ~IsZip(fs[ex.zip_path])
    /\ log' = Logged("error", "Bad ZIP", << >>)
    /\ fs' = FinallyUnlink(HandlerUnlink(fs, ex.zip_path), ex.zip_path)
    /\ ex' = [ex EXCEPT !.outcome = "badzip", !.ret = ReturnNone]
    /\ pc' = "extract_returned"
    /\ UNCHANGED <<args, gen, yielded, call, session, net, hist, cli>>

\* line 209: ZipFile() opens the archive; line 210 starts on its members
ExtractOpen ==
    /\ pc = "extract"
    /\ IsZip(fs[ex.zip_path])
    /\ ex' = [ex EXCEPT !.members = Members(fs[ex.zip_path])]
    /\ pc' = "members"
    /\ UNCHANGED <<args, gen, yielded, call, fs, session, net, log, hist, cli>>

\* line 210: extractall writes the next member
ExtractMember ==
    /\ pc = "members"
    /\ ex.members # << >>
    /\ Head(ex.members) \in {"C", "T"}
    /\ fs' = Put(fs, MemberFile(Head(ex.members)), <<"D">>)
    /\ ex' = [ex EXCEPT !.members = Tail(@)]
    /\ UNCHANGED <<args, gen, yielded, pc, call, session, net, log, hist, cli>>

\* lines 210-217: the member's CRC does not match; its file has been written
\* when zipfile raises BadZipFile
ExtractMemberCorrupt ==
    /\ pc = "members"
    /\ ex.members # << >>
    /\ Head(ex.members) = "X"
    /\ log' = Logged("error", "Bad ZIP", << >>)
    /\ fs' = FinallyUnlink(HandlerUnlink(Put(fs, MemberFile("X"), <<"D">>), ex.zip_path),
                           ex.zip_path)
    /\ ex' = [ex EXCEPT !.outcome = "badzip", !.ret = ReturnNone]
    /\ pc' = "extract_returned"
    /\ UNCHANGED <<args, gen, yielded, call, session, net, hist, cli>>

\* lines 210, 215-217: zipfile raises something other than BadZipFile before
\* it writes the member; the finally clause runs and the exception leaves
\* _extract_zip
ExtractMemberRaises ==
    /\ pc = "members"
    /\ ex.members # << >>
    /\ Head(ex.members) = "O"
    /\ fs' = FinallyUnlink(fs, ex.zip_path)
    /\ ex' = [ex EXCEPT !.outcome = "raised", !.ret = Raise("NotImplementedError")]
    /\ pc' = "extract_returned"
    /\ UNCHANGED <<args, gen, yielded, call, session, net, log, hist, cli>>

\* lines 210-220: every member is written; the finally clause removes the
\* archive; dest.glob("*.txt") lists the text files
ExtractAll ==
    /\ pc = "members"
    /\ ex.members = << >>
    /\ fs' = FinallyUnlink(fs, ex.zip_path)
    /\ ex' = [ex EXCEPT !.outcome = "extracted",
                        !.listed = GlobTxt(FinallyUnlink(fs, ex.zip_path)),
                        !.todo = GlobTxt(FinallyUnlink(fs, ex.zip_path))]
    /\ pc' = "cleanup"
    /\ UNCHANGED <<args, gen, yielded, call, session, net, log, hist, cli>>

\* lines 220-222: the next text file is deleted
CleanupUnlink ==
    /\ pc = "cleanup"
    /\ \E txt \in ex.todo :
         /\ fs' = Unlink(fs, txt)
         /\ ex' = [ex EXCEPT !.todo = @ \ {txt}]
    /\ UNCHANGED <<args, gen, yielded, pc, call, session, net, log, hist, cli>>

\* an OSError of unlink that nothing catches
CleanupFailsAborts ==
    /\ pc = "cleanup"
    /\ \E txt \in ex.todo :
         ex' = [ex EXCEPT !.todo = @ \ {txt}, !.kept = @ \cup {txt},
                          !.outcome = "raised", !.ret = Raise("OSError")]
    /\ pc' = "extract_returned"
    /\ UNCHANGED <<args, gen, yielded, call, fs, session, net, log, hist, cli>>

\* lines 220-224: unlink raises OSError for the next text file
CleanupFails ==
    /\ pc = "cleanup"
    /\ \E txt \in ex.todo : ex' = [ex EXCEPT !.todo = @ \ {txt}, !.kept = @ \cup {txt}]
    /\ log' = Logged("warning", "Could not delete", << >>)
    /\ UNCHANGED <<args, gen, yielded, pc, call, fs, session, net, hist, cli>>

\* line 220: no text file is left to visit; _extract_zip returns
CleanupDone ==
    /\ pc = "cleanup"
    /\ ex.todo = {}
    /\ ex' = [ex EXCEPT !.ret = ReturnNone]
    /\ pc' = "extract_returned"
    /\ UNCHANGED <<args, gen, yielded, call, fs, session, net, log, hist, cli>>

\* line 243 returns; line 240 goes on to the next period
Extracted ==
    /\ pc = "extract_returned"
    /\ ex.ret.kind = "none"
    /\ ex' = NoEx
    /\ pc' = "loop"
    /\ UNCHANGED <<args, gen, yielded, call, fs, session, net, log, hist, cli>>

\* line 243: _extract_zip raised; download_histdata catches nothing
ExtractRaised ==
    /\ pc = "extract_returned"
    /\ ex.ret.kind = "raise"
    /\ pc' = "aborted"
    /\ UNCHANGED <<args, gen, yielded, call, ex, fs, session, net, log, hist, cli>>

Next ==
    \/ Begin
    \/ LoopYield
    \/ LoopStop
    \/ LoopRaise
    \/ FetchGetFail
    \/ FetchGetOk
    \/ FetchResolveForm
    \/ FetchResolveAnchor
    \/ FetchResolveNone
    \/ FetchPostFail
    \/ FetchPostOk
    \/ FetchReject
    \/ FetchName
    \/ FetchNameError
    \/ FetchOpen
    \/ FetchSaved
    \/ FetchStreamBreaks
    \/ FetchedPath
    \/ FetchedNone
    \/ FetchedRaise
    \/ ExtractNotZip
    \/ ExtractOpen
    \/ ExtractMember
    \/ ExtractMemberCorrupt
    \/ ExtractMemberRaises
    \/ ExtractAll
    \/ CleanupUnlink
    \/ CleanupFails
    \/ CleanupDone
    \/ Extracted
    \/ ExtractRaised

Spec == Init /\ [][Next]_vars

----------------------------------------------------------------------------
(* The command 'download histdata' (src/src/elpis_nautilus/cli.py,         *)
(* histdata_cmd) and the staging directory guard _ensure_tmp_dir.          *)

UpperChar(c) ==
    IF \E i \in 1..Len(Lowers) : Lowers[i] = c
    THEN Uppers[CHOOSE i \in 1..Len(Lowers) : Lowers[i] = c]
    ELSE c

\* str.upper()
Upper(s) == [i \in 1..Len(s) |-> UpperChar(s[i])]

Digits == <<"0", "1", "2", "3", "4", "5", "6", "7", "8", "9">>

IsDigit(c) == \E i \in 1..Len(Digits) : Digits[i] = c

DigitVal(c) == (CHOOSE i \in 1..Len(Digits) : Digits[i] = c) - 1

\* what the operator types for a year and a month: YYYY-MM
TypedYearMonth(y, m) ==
    <<Digits[(y \div 1000) + 1], Digits[((y \div 100) % 10) + 1],
      Digits[((y \div 10) % 10) + 1], Digits[(y % 10) + 1], "-",
      Digits[(m \div 10) + 1], Digits[(m % 10) + 1]>>

\* datetime.strptime(val, "%Y-%m"): four digits, a dash, a month of one or
\* two digits and nothing more; the datetime is midnight of the month's
\* first day. ok is FALSE where strptime raises ValueError.
Strptime(val) ==
    LET shaped == /\ Len(val) \in {6, 7}
                  /\ \A i \in 1..4 : IsDigit(val[i])
                  /\ val[5] = "-"
                  /\ \A i \in 6..Len(val) : IsDigit(val[i])
        year   == 1000 * DigitVal(val[1]) + 100 * DigitVal(val[2])
                    + 10 * DigitVal(val[3]) + DigitVal(val[4])
        month  == IF Len(val) = 6 THEN DigitVal(val[6])
                  ELSE 10 * DigitVal(val[6]) + DigitVal(val[7])
    IN  IF shaped /\ year >= 1 /\ month \in 1..12
        THEN [ok |-> TRUE, value |-> [year |-> year, month |-> month, day |-> 1]]
        ELSE [ok |-> FALSE]

\* a comparison that never finds the first date earlier
DateBeforeNever(a, b) == FALSE

\* a < b for two datetimes at midnight
DateBefore(a, b) ==
    \/ a.year < b.year
    \/ a.year = b.year /\ a.month < b.month
    \/ a.year = b.year /\ a.month = b.month /\ a.day < b.day

AnsY == <<"y">>
AnsYesPadded == <<" ", "Y", "E", "S", " ">>
AnsN == <<"n">>
AnsEmpty == << >>
AnsYeah == <<"y", "e", "a", "h">>

\* what the operator answers to 'Create temporary directory ...? [y/N]'
GuardAnswers == {AnsY, AnsYesPadded, AnsN, AnsEmpty, AnsYeah}

\* an acceptance of everything but n and no
AcceptsUnlessNo(ans) == Lower(Strip(ans)) \notin {<<"n">>, <<"n", "o">>}

\* lines 81-82: input(...).strip().lower() in {"y", "yes"}
Accepts(ans) == Lower(Strip(ans)) \in {<<"y">>, <<"y", "e", "s">>}

\* the messages and outputs; - stands for the en dash of the source
MsgNotDir == <<"Configuration error: '", "tmp", "' ", "exists but is not a directory">>
MsgTmpRequired == <<"Aborted - tmp dir required.">>
MsgBadRange == <<"'--to' must be >= '--from'">>
OutAborted == <<"Aborted.">>
OutDone == <<"Done - files in ", "tmp">>

NoDate == [year |-> 0, month |-> 0, day |-> 0]
NoArgs == [symbol |-> << >>, start |-> NoDate, end |-> NoDate]
NoExit == [kind |-> "none", code |-> 0, msg |-> << >>]

\* how the command ends: the exception or return, the process exit code and
\* the message of the exception
Exit(kind, code, msg) == [kind |-> kind, code |-> code, msg |-> msg]

\* the option values of the command line
CliInputs ==
    LET froms == {TypedYearMonth(s.year, s.month) : s \in RunStarts}
                    \cup {TypedYearMonth(FirstYear, 13)}
        ends  == {e \in {FirstOfMonthAfter(s, i) :
                           s \in RunStarts, i \in (0 - 1)..MaxRunSpan} :
                     e.year <= MAXYEAR}
        tos   == {TypedYearMonth(e.year, e.month) : e \in ends}
    IN  {o \in [symbol : {SymEURUSD}, from : froms, to : tos] :
            Strptime(o.from).ok =>
                MonthIndex(Strptime(o.to).value) - MonthIndex(Strptime(o.from).value)
                    \in (0 - 1)..MaxRunSpan}

\* what settings.tmp_dir names when the command starts
TmpStates == {"missing", "dir", "file"}

\* the command as click has received its options; tmp is what
\* settings.tmp_dir names, guards and prompts count the calls of
\* _ensure_tmp_dir and of input(), calls those of download_histdata
NewCli(o, t) ==
    [on |-> TRUE,
     symbol |-> o.symbol, from |-> o.from, to |-> o.to,
     date_from |-> NoDate, date_to |-> NoDate,
     tmp |-> t,
     before |-> [tmp |-> t, fs |-> NoFiles],
     guards |-> 0, prompts |-> 0, answer |-> << >>, guard |-> "none",
     confirms |-> 0, confirmed |-> "none",
     calls |-> 0,
     out |-> << >>,
     exit |-> NoExit]

InitCli ==
    /\ \E o \in CliInputs, t \in TmpStates : cli = NewCli(o, t)
    /\ fs \in (IF cli.tmp = "dir" THEN InitialDirs \ {NoFiles} ELSE {NoFiles})
    /\ pc = "cli_parse"
    /\ args = NoArgs
    /\ gen = NoGen
    /\ yielded = << >>
    /\ call = NoCall
    /\ ex = NoEx
    /\ session = NoSession
    /\ net = << >>
    /\ log = << >>
    /\ hist = NoHist

\* lines 132 and 138: a callback's strptime raises ValueError
CliParseFails ==
    /\ pc = "cli_parse"
    /\ ~Strptime(cli.from).ok \/ ~Strptime(cli.to).ok
    /\ cli' = [cli EXCEPT !.exit = Exit("ValueError", 1, << >>)]
    /\ pc' = "cli_exit"
    /\ UNCHANGED <<args, gen, yielded, call, ex, fs, session, net, log, hist>>

\* lines 132 and 138: the callbacks give date_from and date_to
CliParse ==
    /\ pc = "cli_parse"
    /\ Strptime(cli.from).ok /\ Strptime(cli.to).ok
    /\ cli' = [cli EXCEPT !.date_from = Strptime(cli.from).value,
                          !.date_to = Strptime(cli.to).value]
    /\ pc' = "cli_validate"
    /\ UNCHANGED <<args, gen, yielded, call, ex, fs, session, net, log, hist>>

\* lines 145-146: raise click.BadParameter, a usage error (exit code 2)
CliBadParameter ==
    /\ pc = "cli_validate"
    /\ DateBefore(cli.date_to, cli.date_from)
    /\ cli' = [cli EXCEPT !.exit = Exit("BadParameter", 2, MsgBadRange)]
    /\ pc' = "cli_exit"
    /\ UNCHANGED <<args, gen, yielded, call, ex, fs, session, net, log, hist>>

\* line 145 passes; line 147 calls _ensure_tmp_dir
CliValid ==
    /\ pc = "cli_validate"
    /\ ~DateBefore(cli.date_to, cli.date_from)
    /\ cli' = [cli EXCEPT !.guards = @ + 1,
                          !.before = [tmp |-> cli.tmp, fs |-> fs]]
    /\ pc' = "cli_guard"
    /\ UNCHANGED <<args, gen, yielded, call, ex, fs, session, net, log, hist>>

\* lines 77-79: the path exists and is a directory; it is returned
GuardExistsDir ==
    /\ pc = "cli_guard"
    /\ cli.tmp = "dir"
    /\ cli' = [cli EXCEPT !.guard = "returned"]
    /\ pc' = "cli_confirm"
    /\ UNCHANGED <<args, gen, yielded, call, ex, fs, session, net, log, hist>>

\* a guard that returns a path that is not a directory
GuardNotDirReturns ==
    /\ pc = "cli_guard"
    /\ cli.tmp = "file"
    /\ cli' = [cli EXCEPT !.guard = "returned"]
    /\ pc' = "cli_confirm"
    /\ UNCHANGED <<args, gen, yielded, call, ex, fs, session, net, log, hist>>

\* lines 77-80: the path exists and is not a directory; sys.exit(message)
GuardNotDir ==
    /\ pc = "cli_guard"
    /\ cli.tmp = "file"
    /\ cli' = [cli EXCEPT !.guard = "exited",
                          !.exit = Exit("SystemExit", 1, MsgNotDir)]
    /\ pc' = "cli_exit"
    /\ UNCHANGED <<args, gen, yielded, call, ex, fs, session, net, log, hist>>

\* lines 81-86: the operator accepts; the directory is made and logged
GuardAccepted ==
    /\ pc = "cli_guard"
    /\ cli.tmp = "missing"
    /\ \E ans \in GuardAnswers :
         /\ Accepts(ans)
         /\ cli' = [cli EXCEPT !.prompts = @ + 1, !.answer = ans,
                               !.tmp = "dir", !.guard = "returned"]
    /\ fs' = NoFiles
    /\ log' = Logged("info", "Created", << >>)
    /\ pc' = "cli_confirm"
    /\ UNCHANGED <<args, gen, yielded, call, ex, session, net, hist>>

\* a guard that goes on without the directory when the operator declines
GuardDeclinedContinues ==
    /\ pc = "cli_guard"
    /\ cli.tmp = "missing"
    /\ \E ans \in GuardAnswers :
         /\ ~Accepts(ans)
         /\ cli' = [cli EXCEPT !.prompts = @ + 1, !.answer = ans,
                               !.guard = "returned"]
    /\ pc' = "cli_confirm"
    /\ UNCHANGED <<args, gen, yielded, call, ex, fs, session, net, log, hist>>

\* lines 81-83: any other answer; sys.exit(message)
GuardDeclined ==
    /\ pc = "cli_guard"
    /\ cli.tmp = "missing"
    /\ \E ans \in GuardAnswers :
         /\ ~Accepts(ans)
         /\ cli' = [cli EXCEPT !.prompts = @ + 1, !.answer = ans,
                               !.guard = "exited",
                               !.exit = Exit("SystemExit", 1, MsgTmpRequired)]
    /\ pc' = "cli_exit"
    /\ UNCHANGED <<args, gen, yielded, call, ex, fs, session, net, log, hist>>

\* line 81: input() meets the end of the input and raises EOFError
GuardEof ==
    /\ pc = "cli_guard"
    /\ cli.tmp = "missing"
    /\ cli' = [cli EXCEPT !.prompts = @ + 1, !.guard = "raised",
                          !.exit = Exit("EOFError", 1, << >>)]
    /\ pc' = "cli_exit"
    /\ UNCHANGED <<args, gen, yielded, call, ex, fs, session, net, log, hist>>

\* lines 148 and 151: click.confirm gives True (y, yes or the default on an
\* empty reply); download_histdata is called
CliConfirmed ==
    /\ pc = "cli_confirm"
    /\ cli' = [cli EXCEPT !.confirms = @ + 1, !.confirmed = "yes",
                          !.calls = @ + 1]
    /\ args' = [symbol |-> Upper(cli.symbol),
                start |-> cli.date_from,
                end |-> cli.date_to]
    /\ pc' = "begin"
    /\ UNCHANGED <<gen, yielded, call, ex, fs, session, net, log, hist>>

\* lines 148-150: click.confirm gives False (n or no); echo and return
CliDeclined ==
    /\ pc = "cli_confirm"
    /\ cli' = [cli EXCEPT !.confirms = @ + 1, !.confirmed = "no",
                          !.out = Append(@, OutAborted),
                          !.exit = Exit("return", 0, << >>)]
    /\ pc' = "cli_exit"
    /\ UNCHANGED <<args, gen, yielded, call, ex, fs, session, net, log, hist>>

\* line 148: click.confirm meets the end of the input and raises click.Abort
CliConfirmAborts ==
    /\ pc = "cli_confirm"
    /\ cli' = [cli EXCEPT !.confirms = @ + 1, !.confirmed = "abort",
                          !.exit = Exit("Abort", 1, << >>)]
    /\ pc' = "cli_exit"
    /\ UNCHANGED <<args, gen, yielded, call, ex, fs, session, net, log, hist>>

\* line 152: download_histdata has returned; echo and return
CliDone ==
    /\ cli.on
    /\ pc = "done"
    /\ cli' = [cli EXCEPT !.out = Append(@, OutDone),
                          !.exit = Exit("return", 0, << >>)]
    /\ pc' = "cli_exit"
    /\ UNCHANGED <<args, gen, yielded, call, ex, fs, session, net, log, hist>>

\* line 151: an exception leaves download_histdata and the command
CliCrashed ==
    /\ cli.on
    /\ pc = "aborted"
    /\ cli' = [cli EXCEPT !.exit = Exit("exception", 1, << >>)]
    /\ pc' = "cli_exit"
    /\ UNCHANGED <<args, gen, yielded, call, ex, fs, session, net, log, hist>>

NextCli ==
    \/ CliParseFails
    \/ CliParse
    \/ CliBadParameter
    \/ CliValid
    \/ GuardExistsDir
    \/ GuardNotDir
    \/ GuardAccepted
    \/ GuardDeclined
    \/ GuardEof
    \/ CliConfirmed
    \/ CliDeclined
    \/ CliConfirmAborts
    \/ CliDone
    \/ CliCrashed
    \/ Next

SpecCli == InitCli /\ [][NextCli]_vars

----------------------------------------------------------------------------
(* _extract_filename(content_disposition), called on its own.              *)

TxtAttachment == <<"a","t","t","a","c","h","m","e","n","t",";"," ">>
TxtCharset == <<";"," ","c","h","a","r","s","e","t","=","u","t","f","-","8">>
NameGZip == <<"g",".","Z","I","P">>
NameSpaced == <<"a"," ","b",".","z","i","p">>

\* Content-Disposition strings with a filename= parameter, kept with the
\* parts they are made of: what precedes the parameter, the blanks and the
\* quotes around the value, the value, and the parameters that follow
WithFilename ==
    {[param |-> TRUE, name |-> n,
      cd |-> l \o TxtFilenameEq \o b \o q \o n \o q \o a \o t] :
        l \in {<< >>, TxtAttachment},
        b \in {<< >>, <<" ">>},
        q \in {<< >>, <<"\"">>},
        n \in {NameFZip, NameGZip, NameSpaced},
        a \in {<< >>, <<" ">>},
        t \in {<< >>, TxtCharset}}

\* Content-Disposition strings without a filename= parameter, the last two
\* with the parameter name in capitals and with an empty value
WithoutFilename ==
    {[param |-> FALSE, name |-> << >>, cd |-> c] :
        c \in {<< >>, DispNoFilename,
               <<"i","n","l","i","n","e">>,
               <<"F","I","L","E","N","A","M","E","=","f",".","z","i","p">>,
               TxtAttachment \o TxtFilenameEq \o TxtCharset}}

FilenameInputs == WithFilename \cup WithoutFilename

InitFilename ==
    /\ args \in FilenameInputs
    /\ pc = "filename_call"
    /\ call = NoCall
    /\ gen = NoGen
    /\ yielded = << >>
    /\ ex = NoEx
    /\ fs = NoFiles
    /\ session = NoSession
    /\ net = << >>
    /\ log = << >>
    /\ hist = NoHist
    /\ cli = NoCli

\* lines 123-127, the whole function
FilenameCall ==
    /\ pc = "filename_call"
    /\ call' = [fn |-> "_extract_filename", ret |-> ExtractFilename(args.cd)]
    /\ pc' = "filename_returned"
    /\ UNCHANGED <<args, gen, yielded, ex, fs, session, net, log, hist, cli>>

NextFilename == FilenameCall

SpecFilename == InitFilename /\ [][NextFilename]_vars

----------------------------------------------------------------------------
(* Claims about _year_month_range.                                         *)

\* the i-th month counted from the month of d, as a (year, month) pair
MonthAfter(d, i) ==
    LET idx == d.year * 12 + (d.month - 1) + i
    IN  <<idx \div 12, (idx % 12) + 1>>

RangeLength(s, e) == MonthIndex(e) - MonthIndex(s) + 1

IsPrefix(p, q) == Len(p) <= Len(q) /\ SubSeq(q, 1, Len(p)) = p

RangeEnded == pc \in {"range_done", "range_raised"}

\* C1: for start <= end (month-truncated), _year_month_range yields exactly
\* the months from start's through end's, in order: the stated number of
\* entries, the i-th entry being start's month plus i-1 months (so month 12 of
\* year y is followed by month 1 of year y+1, nothing repeated or skipped),
\* whatever the days of start and end; while it runs, what it has yielded is a
\* prefix of that sequence.
C1_RangeExact ==
    (pc \in {"iterating", "range_done", "range_raised"}
        /\ MonthIndex(args.start) <= MonthIndex(args.end)) =>
        LET n == RangeLength(args.start, args.end)
            expected == [i \in 1..n |-> MonthAfter(args.start, i - 1)]
        IN  /\ IsPrefix(yielded, expected)
            /\ RangeEnded => /\ Len(yielded) = n
                             /\ yielded = expected
                             /\ \A i \in 1..(n - 1) :
                                  \/ /\ yielded[i][2] < 12
                                     /\ yielded[i + 1] = <<yielded[i][1], yielded[i][2] + 1>>
                                  \/ /\ yielded[i][2] = 12
                                     /\ yielded[i + 1] = <<yielded[i][1] + 1, 1>>

\* C1 witness: a finished range from a December to the next January, start's
\* day later in its month than end's day.
C1_Witness ==
    /\ pc = "range_done"
    /\ args.start.month = 12
    /\ args.start.day > args.end.day
    /\ yielded = <<<<args.start.year, 12>>, <<args.start.year + 1, 1>>>>

----------------------------------------------------------------------------
(* Claims about _fetch_zip, _extract_zip and download_histdata.            *)

\* the periods of the run's range, as the range is specified
RunPeriods ==
    [i \in 1..RangeLength(args.start, args.end) |-> MonthAfter(args.start, i - 1)]

\* the _fetch_zip call has ended: returned, or raised
FetchEnded == pc = "fetch_returned" /\ call.fn = "_fetch_zip"

\* the _extract_zip call has ended: returned, or raised
ExtractEnded == pc = "extract_returned" /\ ex.fn = "_extract_zip"

\* download_histdata has ended: returned, or an exception left it
RunEnded == pc \in {"done", "aborted"}

\* C2: _fetch_zip never raises to its caller: every call ends by returning a
\* path or None.
C2_FetchNeverRaises ==
    FetchEnded => call.ret.kind \in {"path", "none"}

\* C3: a failure while handling one period never aborts the run: when
\* download_histdata ends, _fetch_zip has been attempted for every period of
\* the range.
C3_EveryPeriodAttempted ==
    RunEnded => Len(hist.fetches) = Len(RunPeriods)

\* C4: a _fetch_zip call creates at most one file in the destination and only
\* on success: when it ends without returning a path, the directory is as it
\* was when the call began; when it returns a path, nothing but that file has
\* been added.
C4_NoFileUnlessSuccess ==
    FetchEnded =>
        /\ call.ret.kind # "path" => fs = call.before
        /\ call.ret.kind = "path" =>
              /\ (DOMAIN fs) \ (DOMAIN call.before) \subseteq {call.ret.path}
              /\ \A n \in (DOMAIN call.before) \ {call.ret.path} :
                    n \in DOMAIN fs /\ fs[n] = call.before[n]

\* C5: _extract_zip deletes the archive on every exit path: when the call has
\* ended (extraction done, archive corrupt, or another exception raised), the
\* archive file does not exist.
C5_ArchiveAlwaysDeleted ==
    /\ ExtractEnded => ex.zip_path \notin DOMAIN fs
    /\ pc = "cleanup" => ex.zip_path \notin DOMAIN fs

\* C5 witness: _extract_zip has ended by an exception other than BadZipFile,
\* raised after a member was written, and the archive it was given is gone.
C5_Witness ==
    /\ ExtractEnded
    /\ ex.outcome = "raised"
    /\ ex.ret.kind = "raise"
    /\ ex.zip_path \in DOMAIN ex.before
    /\ MemberCsv \in DOMAIN fs
    /\ ex.zip_path \notin DOMAIN fs

\* C6: given a corrupt archive, _extract_zip does not raise, removes the
\* archive and leaves no partially extracted output: the destination holds
\* what it held before the call, less the archive.
C6_CorruptLeavesNothing ==
    (ExtractEnded /\ ex.outcome = "badzip") =>
        /\ ex.ret.kind = "none"
        /\ ex.zip_path \notin DOMAIN fs
        /\ fs = Remove(ex.before, {ex.zip_path})

\* C7: download_histdata fetches the periods one at a time in the order of
\* the range, each exactly once: the periods fetched so far are the first
\* periods of the range, none twice; a fetch begins only when every earlier
\* fetch has ended; a run that completes has fetched every period.
C7_OncePerPeriodInOrder ==
    /\ IsPrefix(hist.fetches, RunPeriods)
    /\ \A i, j \in 1..Len(hist.fetches) : hist.fetches[i] = hist.fetches[j] => i = j
    /\ Len(hist.results) \in {Len(hist.fetches) - 1, Len(hist.fetches)}
    /\ Len(hist.results) = Len(hist.fetches) - 1 =>
          /\ call.fn = "_fetch_zip"
          /\ call.period = hist.fetches[Len(hist.fetches)]
    /\ pc \in {"loop", "done"} => Len(hist.results) = Len(hist.fetches)
    /\ pc = "done" => hist.fetches = RunPeriods

\* C7 witness: a completed run over two periods in which the first period's
\* fetch failed: both were fetched, once each, the failed one first.
C7_Witness ==
    /\ pc = "done"
    /\ Len(RunPeriods) = 2
    /\ hist.fetches = RunPeriods
    /\ hist.results[1].kind = "none"
    /\ hist.results[2].kind = "path"

\* the paths the fetches have returned, in order
ReturnedPaths ==
    LET ok == SelectSeq(hist.results, LAMBDA r : r.kind = "path")
    IN  [i \in 1..Len(ok) |-> ok[i].path]

\* C8: _extract_zip is called for a period if and only if its _fetch_zip
\* returned a path, with that path, and it ends before the next fetch begins:
\* the extraction calls are exactly the returned paths, in order, and no
\* extraction is in progress while a fetch is.
C8_ExtractIffFetched ==
    /\ Len(hist.extracts) = Len(ReturnedPaths)
    /\ \A i \in 1..Len(hist.extracts) : hist.extracts[i] = ReturnedPaths[i]
    /\ call.fn = "_fetch_zip" => ex = NoEx
    /\ ex.fn = "_extract_zip" =>
          /\ call = NoCall
          /\ hist.results[Len(hist.results)].kind = "path"
          /\ ex.zip_path = hist.results[Len(hist.results)].path

\* C8 witness: two periods, only the second fetch succeeding: one extraction
\* call, made with the second fetch's path.
C8_Witness ==
    /\ pc = "done"
    /\ Len(hist.fetches) = 2
    /\ hist.results[1].kind = "none"
    /\ hist.results[2].kind = "path"
    /\ hist.extracts = <<hist.results[2].path>>

\* C9: if the listing GET raises or returns a non-success status, _fetch_zip
\* returns None, issues no POST, does not repeat the GET and writes no file.
C9_GetFailureEndsCall ==
    (call.fn = "_fetch_zip" /\ call.get \in {"transport", "status"}) =>
        /\ pc = "fetch_returned"
        /\ call.ret.kind = "none"
        /\ net = <<Get(call.page_url)>>
        /\ fs = call.before

\* C9 witness: a call ended after the listing page answered with a
\* non-success status.
C9_Witness ==
    /\ FetchEnded
    /\ call.get = "status"
    /\ call.ret.kind = "none"

\* the page names no download: no file_down form, and no a_file anchor whose
\* trimmed text ends, whatever the case, in .zip
NoDownloadOnPage(page) ==
    /\ ~page.form.present
    /\ \/ ~page.anchor.present
       \/ ~EndsWith(Lower(Strip(page.anchor.text)), TxtDotZip)

\* C10: if the page has neither the form nor an a_file anchor whose trimmed
\* text ends (case-insensitively) in .zip, _fetch_zip returns None, issues no
\* POST and writes no file; once the page is parsed the call goes nowhere but
\* to that return.
C10_NoMechanismEndsCall ==
    (call.fn = "_fetch_zip" /\ call.get = "ok" /\ NoDownloadOnPage(call.page)) =>
        /\ pc \in {"resolve", "fetch_returned"}
        /\ pc = "fetch_returned" => call.ret.kind = "none"
        /\ \A i \in 1..Len(net) : net[i].op # "POST"
        /\ fs = call.before

\* C10 witness: a call that returned None on a page whose a_file anchor is
\* present but does not name a .zip.
C10_Witness ==
    /\ FetchEnded
    /\ call.get = "ok"
    /\ ~call.page.form.present
    /\ call.page.anchor.present
    /\ NoDownloadOnPage(call.page)
    /\ call.ret.kind = "none"

\* the Content-Type names markup, or the Content-Disposition names no zip
\* (whatever the case of either)
NotAnArchive(headers) ==
    LET ctype == IF "Content-Type" \in DOMAIN headers
                 THEN headers["Content-Type"] ELSE << >>
        disp  == IF "Content-Disposition" \in DOMAIN headers
                 THEN headers["Content-Disposition"] ELSE << >>
    IN  \/ \E i \in 1..(Len(ctype) - 3) :
              /\ ctype[i] \in {"h", "H"} /\ ctype[i + 1] \in {"t", "T"}
              /\ ctype[i + 2] \in {"m", "M"} /\ ctype[i + 3] \in {"l", "L"}
        \/ ~\E i \in 1..(Len(disp) - 2) :
              /\ disp[i] \in {"z", "Z"} /\ disp[i + 1] \in {"i", "I"}
              /\ disp[i + 2] \in {"p", "P"}

\* C11: once the POST has been issued, _fetch_zip returns None and creates no
\* file whenever the POST raises or returns a non-success status, or its
\* Content-Type contains html, or its Content-Disposition does not contain zip
\* (case-insensitive); the content checks come before the file is opened, so
\* such a call is never at the open or at the streaming of the body.
C11_BadPostEndsCall ==
    /\ (call.fn = "_fetch_zip" /\ call.post \in {"transport", "status"}) =>
          /\ pc = "fetch_returned"
          /\ call.ret.kind = "none"
          /\ fs = call.before
    /\ (call.fn = "_fetch_zip" /\ call.post = "ok" /\ NotAnArchive(call.headers)) =>
          /\ pc \in {"check", "fetch_returned"}
          /\ pc = "fetch_returned" => call.ret.kind = "none"
          /\ fs = call.before
    /\ (call.fn = "_fetch_zip" /\ pc \in {"open", "stream"}) =>
          call.post = "ok"

\* C11 witness: a call that returned None because the POST was answered with
\* a markup content type written in capitals, the disposition naming a zip.
C11_Witness ==
    /\ FetchEnded
    /\ call.post = "ok"
    /\ "Content-Type" \in DOMAIN call.headers
    /\ call.headers["Content-Type"] = CtypeHtml
    /\ "Content-Disposition" \in DOMAIN call.headers
    /\ call.headers["Content-Disposition"] = DispQuoted
    /\ call.ret.kind = "none"
    /\ fs = call.before

RECURSIVE Concatenation(_)
\* the chunks, one after the other
Concatenation(chunks) ==
    IF chunks = << >> THEN << >>
    ELSE Head(chunks) \o Concatenation(Tail(chunks))

OneDataOneText == ex.before[ex.zip_path] = <<"C", "T", "E">>

\* C13 as first stated: given a well-formed archive of one data file and one
\* text file, after _extract_zip returns the data file exists in dest, the
\* text file does not, and the archive is gone.
C13_DataKeptTextGone ==
    (ExtractEnded /\ ex.ret.kind = "none" /\ OneDataOneText) =>
        /\ MemberCsv \in DOMAIN fs
        /\ MemberTxt \notin DOMAIN fs
        /\ ex.zip_path \notin DOMAIN fs

\* C13, amended: the same, when deleting the text file does not fail.
C13_DataKeptTextGoneIfDeletable ==
    (ExtractEnded /\ ex.ret.kind = "none" /\ OneDataOneText
        /\ MemberTxt \notin ex.kept) =>
        /\ MemberCsv \in DOMAIN fs
        /\ MemberTxt \notin DOMAIN fs
        /\ ex.zip_path \notin DOMAIN fs

\* C13 witness: _extract_zip has returned from such an archive with the data
\* file in dest and the text file deleted.
C13_Witness ==
    /\ ExtractEnded
    /\ ex.ret.kind = "none"
    /\ OneDataOneText
    /\ MemberTxt \in ex.listed
    /\ ex.kept = {}
    /\ MemberCsv \in DOMAIN fs
    /\ MemberTxt \notin DOMAIN fs

\* the warnings logged since the _extract_zip call began
WarningsOfCall ==
    {i \in (ex.logged + 1)..Len(log) : log[i].level = "warning"}

\* C14: an OSError when deleting a text file is logged as a warning and does
\* not abort: the call returns normally, one warning is logged per
\* undeletable file, every other text file of dest has been deleted, the
\* undeletable ones remain, and the archive was removed before the cleanup
\* began.
C14_UnlinkFailureTolerated ==
    /\ (ex.fn = "_extract_zip" /\ ex.kept # {}) =>
          /\ pc \in {"cleanup", "extract_returned"}
          /\ ex.ret.kind \in {"running", "none"}
          /\ ex.kept \subseteq DOMAIN fs
          /\ Cardinality(WarningsOfCall) = Cardinality(ex.kept)
          /\ ex.zip_path \notin DOMAIN fs
    /\ (ExtractEnded /\ ex.outcome = "extracted") =>
          /\ ex.ret.kind = "none"
          /\ GlobTxt(fs) = ex.kept
          /\ \A txt \in ex.listed \ ex.kept : txt \notin DOMAIN fs

\* C14 witness: _extract_zip has returned after one text file could not be
\* deleted and another was deleted.
C14_Witness ==
    /\ ExtractEnded
    /\ ex.ret.kind = "none"
    /\ Cardinality(ex.kept) = 1
    /\ Cardinality(ex.listed) = 2
    /\ Cardinality(GlobTxt(fs)) = 1
    /\ Cardinality(WarningsOfCall) = 1

\* start's (year, month) is strictly later than end's
StartMonthAfterEnd ==
    \/ args.start.year > args.end.year
    \/ args.start.year = args.end.year /\ args.start.month > args.end.month

SameMonth == args.start.year = args.end.year /\ args.start.month = args.end.month

\* C15: _year_month_range yields nothing if and only if start's (year, month)
\* is strictly later than end's; in every other case it yields at least one
\* element, and when start and end fall in the same month, whatever their
\* days, it yields exactly one. While it runs, nothing is yielded from a
\* start month after the end month.
C15_EmptyIffStartAfterEnd ==
    /\ (pc = "iterating" /\ StartMonthAfterEnd) => yielded = << >>
    /\ RangeEnded =>
          /\ yielded = << >> <=> StartMonthAfterEnd
          /\ ~StartMonthAfterEnd => Len(yielded) >= 1
          /\ SameMonth => yielded = <<<<args.start.year, args.start.month>>>>

\* C15 witness: a finished range over one month whose end day precedes its
\* start day, with one element yielded.
C15_Witness ==
    /\ pc = "range_done"
    /\ SameMonth
    /\ args.end.day < args.start.day
    /\ Len(yielded) = 1

\* C16: in one process the HTTP session is constructed at most once, every
\* _session() call returned that one object, its headers carry the User-Agent
\* and Accept values of HEADERS, and once a call has taken the session no
\* operation of the run resets or replaces it.
C16_SessionSingleton ==
    /\ session.made <= 1
    /\ session.created <=> session.made = 1
    /\ session.created =>
          \A k \in {"User-Agent", "Accept"} :
              k \in DOMAIN session.headers /\ session.headers[k] = HEADERS[k]
    /\ hist.sessions # << >> =>
          /\ session.created
          /\ \A i \in 1..Len(hist.sessions) : hist.sessions[i] = session.id
    /\ call.fn = "_fetch_zip" => call.sess = session.id

\* C16 witness: the second _fetch_zip of a run is downloading with the
\* session the first one built, after an extraction in between.
C16_Witness ==
    /\ pc = "stream"
    /\ Len(hist.sessions) = 2
    /\ Len(hist.extracts) = 1
    /\ session.made = 1
    /\ call.sess = hist.sessions[1]

----------------------------------------------------------------------------
(* Claims about _ensure_tmp_dir and the command 'download histdata'.       *)

CliPcs == {"cli_parse", "cli_validate", "cli_guard", "cli_confirm", "cli_exit"}

\* the answers that are y or yes once trimmed and put in lower case
YesAnswers == {<<"y">>, <<" ", "Y", "E", "S", " ">>}

\* C17: when the staging path does not exist, _ensure_tmp_dir creates the
\* directory only after the operator answered y or yes (trimmed, any case);
\* after any other answer, the empty one included, the run has ended with
\* SystemExit and no directory was created.
C17_CreatedOnlyOnYes ==
    (cli.on /\ cli.before.tmp = "missing") =>
        /\ cli.tmp \in {"missing", "dir"}
        /\ cli.tmp = "dir" =>
              /\ cli.prompts = 1
              /\ cli.answer \in YesAnswers
              /\ cli.guard = "returned"
        /\ (cli.guard \in {"returned", "exited"} /\ cli.answer \notin YesAnswers) =>
              /\ pc = "cli_exit"
              /\ cli.exit.kind = "SystemExit"
              /\ cli.tmp = "missing"
              /\ cli.calls = 0

\* C17 witness: the guard has returned after creating the missing directory
\* on the answer ' YES '.
C17_Witness ==
    /\ pc = "cli_confirm"
    /\ cli.before.tmp = "missing"
    /\ cli.answer = AnsYesPadded
    /\ cli.tmp = "dir"
    /\ fs = NoFiles

\* C18: when the staging path exists, _ensure_tmp_dir does not prompt and
\* leaves the filesystem as it was: a directory is returned, anything else
\* ends the run at once with a SystemExit whose message says 'exists but is
\* not a directory'.
C18_ExistingPathUntouched ==
    (cli.on /\ cli.guards = 1 /\ cli.before.tmp # "missing") =>
        /\ cli.prompts = 0
        /\ cli.tmp = cli.before.tmp
        /\ cli.calls = 0 => fs = cli.before.fs /\ log = << >>
        /\ (cli.before.tmp = "dir" /\ cli.guard # "none") => cli.guard = "returned"
        /\ (cli.before.tmp = "file" /\ cli.guard # "none") =>
              /\ cli.guard = "exited"
              /\ pc = "cli_exit"
              /\ cli.exit.kind = "SystemExit"
              /\ \E i \in 1..Len(cli.exit.msg) :
                    cli.exit.msg[i] = "exists but is not a directory"
              /\ cli.calls = 0

\* C18 witness: the guard has ended the run because the path is a file.
C18_Witness ==
    /\ pc = "cli_exit"
    /\ cli.before.tmp = "file"
    /\ cli.guard = "exited"
    /\ cli.exit = Exit("SystemExit", 1, MsgNotDir)
    /\ cli.prompts = 0

NoDownloadBegun ==
    /\ cli.calls = 0
    /\ hist.fetches = << >>
    /\ net = << >>
    /\ ~session.created
    /\ \A i \in 1..Len(log) : log[i].msg # "Downloading"

ToBeforeFrom ==
    /\ pc \notin {"cli_parse"}
    /\ cli.exit.kind # "ValueError"
    /\ MonthIndex(cli.date_to) < MonthIndex(cli.date_from)

\* C20: the command calls download_histdata at most once, only with --to not
\* earlier than --from and the operator's confirmation, with the upper-cased
\* symbol and the first days of the two months typed; with --to earlier than
\* --from it fails with BadParameter before the guard runs; when the operator
\* declines it prints 'Aborted.' and exits with code 0 without downloading.
C20_DownloadOnceWhenConfirmed ==
    cli.on =>
        /\ cli.calls <= 1
        /\ (pc \notin CliPcs \/ hist.fetches # << >>) => cli.calls = 1
        /\ cli.calls = 1 =>
              /\ ~ToBeforeFrom
              /\ cli.confirmed = "yes"
              /\ args.symbol = <<"E", "U", "R", "U", "S", "D">>
              /\ args.start.day = 1 /\ args.end.day = 1
              /\ TypedYearMonth(args.start.year, args.start.month) = cli.from
              /\ TypedYearMonth(args.end.year, args.end.month) = cli.to
        /\ (ToBeforeFrom /\ pc # "cli_validate") =>
              /\ pc = "cli_exit"
              /\ cli.exit.kind = "BadParameter"
              /\ cli.guards = 0 /\ cli.prompts = 0 /\ cli.confirms = 0
              /\ NoDownloadBegun
        /\ cli.confirmed = "no" =>
              /\ pc = "cli_exit"
              /\ cli.out = <<OutAborted>>
              /\ cli.exit.kind = "return" /\ cli.exit.code = 0
              /\ NoDownloadBegun

\* C20 witness: the command has printed its completion message after one
\* download_histdata call over two months.
C20_Witness ==
    /\ pc = "cli_exit"
    /\ cli.exit.kind = "return"
    /\ cli.out = <<OutDone>>
    /\ cli.calls = 1
    /\ args.symbol = Upper(cli.symbol)
    /\ Len(hist.fetches) = 2

----------------------------------------------------------------------------
(* Claims about _extract_filename, and further claims about the run.       *)

\* C21: _extract_filename returns the value of the filename= parameter: the
\* text after filename= up to the next semicolon or the end, without the
\* surrounding blanks and double quotes, so the quoted and the plain form give
\* the same name and a following '; charset=utf-8' is ignored; it returns
\* None when the string has no filename= parameter (or one with nothing
\* before the next semicolon).
C21_FilenameValue ==
    (pc = "filename_returned" /\ call.fn = "_extract_filename") =>
        /\ args.param => call.ret = [found |-> TRUE, val |-> args.name]
        /\ ~args.param => ~call.ret.found

\* C21 witness: f.zip returned from a quoted value with blanks around it and
\* a charset parameter after it.
C21_Witness ==
    /\ pc = "filename_returned"
    /\ args.cd = TxtAttachment \o TxtFilenameEq \o <<" ", "\"">> \o NameFZip
                    \o <<"\"", " ">> \o TxtCharset
    /\ call.ret.found
    /\ call.ret.val = <<"f", ".", "z", "i", "p">>

\* the POST response of the call in progress has passed the content checks
PassedChecks ==
    /\ call.fn = "_fetch_zip"
    /\ call.post = "ok"
    /\ ~NotAnArchive(call.headers)

\* C22: whenever the POST response passes the content checks, _fetch_zip
\* determines an output file name on both resolution paths: the parsed
\* filename= value when the disposition has one, the name derived while
\* resolving the download otherwise; also on the form path with a disposition
\* that contains zip but no filename=, a name is determined and the file is
\* written.
C22_NameAlwaysDetermined ==
    (FetchEnded /\ PassedChecks) =>
        /\ call.headers["Content-Disposition"] = DispQuoted => call.fname = NameFZip
        /\ call.headers["Content-Disposition"] = DispPlain => call.fname = NameGZip
        /\ (call.headers["Content-Disposition"] = DispNoFilename /\ call.via = "anchor") =>
              call.fname = <<"H", ".", "Z", "i", "p">>
        /\ call.fname # << >>
        /\ call.fname \in DOMAIN fs

\* C23: during a download_histdata run an archive written by _fetch_zip
\* exists only between its download and its extraction: when a period's fetch
\* begins, and when the run has ended, no archive written for an earlier
\* period of the run is in the filesystem, whether its extraction succeeded
\* or failed.
C23_ArchiveTransient ==
    (pc = "get" \/ RunEnded) =>
        \A path \in hist.written : path \notin DOMAIN fs

\* the path, taken from dest, stays in dest: it is not absolute and has no
\* .. component
InsideDest(path) ==
    /\ path # << >>
    /\ path[1] # "/"
    /\ ~\E i \in 1..(Len(path) - 1) :
          /\ path[i] = "." /\ path[i + 1] = "."
          /\ (i = 1 \/ path[i - 1] = "/")
          /\ (i + 1 = Len(path) \/ path[i + 2] = "/")

\* C24: whatever Content-Disposition passes the content checks, the file
\* _fetch_zip writes, and the path it returns, is inside the destination
\* directory: the filename= value of the server cannot move the write out of
\* dest through ../ components or an absolute path.
C24_WrittenInsideDest ==
    /\ \A path \in hist.written : InsideDest(path)
    /\ (FetchEnded /\ call.ret.kind = "path") => InsideDest(call.ret.path)

\* the positions inside a _fetch_zip call
FetchPcs == {"get", "resolve", "post", "check", "open", "stream", "fetch_returned"}

\* the named input fields of the forms of the sampled pages
ExpectedPayload(form) ==
    IF form = FormFull
    THEN (TxtFile :> <<"f", ".", "z", "i", "p">>) @@ (NameToken :> << >>)
    ELSE << >>

\* C25: within one _fetch_zip call the requests are one GET of the listing
\* page and then at most one POST, sent only after the GET succeeded and a
\* download mechanism was resolved. With the file_down form on the page the
\* POST data are the form's named inputs (the empty string for an input
\* without value), the target is the form's action resolved against the
\* listing page and the anchor is not consulted; otherwise the data are
\* {file: anchor text} and the target is get.php resolved against the listing
\* page. The POST carries the listing-page address as Referer.
C25_OneGetThenOnePost ==
    (pc \in FetchPcs /\ call.fn = "_fetch_zip") =>
        /\ Len(net) = (IF pc = "get" THEN 0
                       ELSE IF call.post = "pending" THEN 1 ELSE 2)
        /\ Len(net) >= 1 =>
              net[1] = [op |-> "GET", url |-> call.page_url,
                        data |-> << >>, referer |-> << >>]
        /\ call.page_url = [symbol |-> <<"e", "u", "r", "u", "s", "d">>,
                            year |-> call.period[1], month |-> call.period[2]]
        /\ call.get # "ok" => call.post = "pending"
        /\ call.via = "none" => call.post = "pending"
        /\ (call.via # "none" /\ call.page.form.present) =>
              /\ call.via = "form"
              /\ ~call.zip_name.bound
        /\ Len(net) = 2 =>
              /\ net[2].op = "POST"
              /\ net[2].referer = <<call.page_url>>
              /\ net[2].url.base = call.page_url
              /\ call.via = "form" =>
                    /\ net[2].data = ExpectedPayload(call.page.form)
                    /\ net[2].url.ref = IF call.page.form = FormFull
                                        THEN call.page.form.action
                                        ELSE <<"g", "e", "t", ".", "p", "h", "p">>
              /\ call.via = "anchor" =>
                    /\ net[2].data = (TxtFile :> <<"H", ".", "Z", "i", "p">>)
                    /\ net[2].url.ref = <<"g", "e", "t", ".", "p", "h", "p">>

\* C25 witness: the POST of a page that has both the form and the anchor has
\* been answered; its data are the form's two named inputs.
C25_Witness ==
    /\ pc = "check"
    /\ call.via = "form"
    /\ call.page.anchor.present
    /\ Len(net) = 2
    /\ DOMAIN net[2].data = {TxtFile, NameToken}
    /\ net[2].data[NameToken] = << >>
    /\ net[2].referer = <<call.page_url>>

StartLogged == \E i \in 1..Len(log) : log[i].msg = "Downloading"
CompletionLogged == \E i \in 1..Len(log) : log[i].msg = "Completed"

\* C26: download_histdata logs a start message before the first fetch and a
\* completion message after the last period was handled, and every run that
\* has logged the start message eventually logs the completion message: a run
\* that has ended (nothing of it runs any more) has logged both.
C26_StartLeadsToCompletion ==
    /\ hist.fetches # << >> => StartLogged
    /\ CompletionLogged => (pc = "done" /\ hist.fetches = RunPeriods)
    /\ (RunEnded /\ StartLogged) => CompletionLogged

\* the error-level entries logged since the _fetch_zip call began
ErrorsOfCall ==
    {i \in (call.logged + 1)..Len(log) : log[i].level = "error"}

\* C27: every path on which _fetch_zip ends without returning a file path is
\* logged: one error-level entry, naming the period, has been emitted when
\* the call ends; the path that returns a file emits no error-level entry.
C27_EveryFailureLogged ==
    FetchEnded =>
        /\ call.ret.kind # "path" =>
              /\ Cardinality(ErrorsOfCall) = 1
              /\ \A i \in ErrorsOfCall : log[i].period = call.period
        /\ call.ret.kind = "path" => ErrorsOfCall = {}

\* a text file lying directly in the destination directory
DirectTxt(n) == DirectChild(n) /\ EndsWith(n, TxtDotTxt)

ExtractedAllDeleted ==
    ExtractEnded /\ ex.outcome = "extracted" /\ ex.kept = {}

\* C28: when _extract_zip returns from a successful extraction in which
\* every unlink succeeded, no *.txt file lies directly in the destination
\* directory, wherever it came from; every other file that was there before
\* the call (not a .txt file, or in a subdirectory) is still there with its
\* content, and so is every data file of the archive.
C28_TextFilesCleared ==
    ExtractedAllDeleted =>
        /\ \A n \in DOMAIN fs : ~DirectTxt(n)
        /\ \A n \in DOMAIN ex.before \ {ex.zip_path} :
              ~DirectTxt(n) => (n \in DOMAIN fs /\ fs[n] = ex.before[n])
        /\ \A i \in 1..Len(Members(ex.before[ex.zip_path])) :
              Members(ex.before[ex.zip_path])[i] = "C" => MemberCsv \in DOMAIN fs

C28_Witness ==
    /\ ExtractedAllDeleted
    /\ {OldTxt, OldCsv, SubTxt} \subseteq DOMAIN ex.before
    /\ ex.listed = {OldTxt, MemberTxt}
    /\ {OldCsv, SubTxt, MemberCsv} \subseteq DOMAIN fs
    /\ OldTxt \notin DOMAIN fs
    /\ MemberTxt \notin DOMAIN fs

CorruptEnded == ExtractEnded /\ ex.outcome = "badzip"

\* C29: on the corrupt-archive path _extract_zip does no cleanup of text
\* files: when the call returns, the archive is gone and every other file
\* that was in the destination directory before the call, each .txt file
\* among them, is still there with its content; the text files the archive
\* wrote before the corruption showed are not listed or deleted either.
C29_CorruptPathDeletesOnlyArchive ==
    CorruptEnded =>
        /\ ex.zip_path \notin DOMAIN fs
        /\ \A n \in DOMAIN ex.before \ {ex.zip_path} :
              n \in DOMAIN fs /\ fs[n] = ex.before[n]
        /\ ex.listed = {}
        /\ ex.ret.kind = "none"

C29_Witness ==
    /\ CorruptEnded
    /\ {OldTxt, SubTxt} \subseteq DOMAIN ex.before
    /\ ex.zip_path \in DOMAIN ex.before
    /\ {OldTxt, SubTxt, MemberTxt, MemberBad} \subseteq DOMAIN fs
    /\ ex.zip_path \notin DOMAIN fs

\* the headers of the session when _session() has created it
HeadersAtCreation == DictUpdate(DefaultHeaders, HEADERS)

\* C30: _fetch_zip and _extract_zip leave the session's headers as they were
\* set at creation: the Referer of a POST goes with that request only and is
\* never a header of the session, so at every step of the run, each period's
\* GET among them, the session's headers are the default ones updated with
\* HEADERS.
C30_SessionHeadersUnchanged ==
    session.created =>
        /\ "Referer" \notin DOMAIN session.headers
        /\ DOMAIN session.headers = DOMAIN HeadersAtCreation
        /\ \A k \in DOMAIN HeadersAtCreation :
              session.headers[k] = HeadersAtCreation[k]

C30_Witness ==
    /\ pc = "get"
    /\ Len(hist.fetches) = 2
    /\ Len(hist.results) = 1
    /\ hist.results[1].kind = "path"
    /\ Len(hist.extracts) = 1
    /\ session.created
    /\ "Referer" \notin DOMAIN session.headers

====
